---- MODULE Spec2Model ----
(***************************************************************************)
(* Constant-depth matchgate circuits fitted with QSearch                   *)
(* (Constant_Depth_w_QSearch_XY_Demo.ipynb).                               *)
(*                                                                         *)
(* Two parts of the notebook are modelled:                                 *)
(*   - the circuit-structure functions make_matchgate, make_layertype1,    *)
(*     make_layertype2 and make_MGC, as operators over gate trees, applied *)
(*     by SpecBuild to arguments drawn from 1..MaxN;                       *)
(*   - the "make constant-depth circuits" cell: for every time-step the    *)
(*     target is fetched, the structure rebuilt, the multistart solver     *)
(*     run up to maxAttempts times, and the result assembled (Spec).       *)
(* SpecTarget is the same cell with the target unitary as a free input.    *)
(***************************************************************************)
EXTENDS Integers, Sequences, FiniteSets

(* ------------------------------ bounds --------------------------------- *)
\* largest number of spins N the functions are applied to
MaxN == 5
\* calls of the structure functions recorded by SpecBuild
MaxCalls == 2
\* num_steps of the cell: time-steps 0..NumSteps are synthesized
NumSteps == 1
\* distances live on the grid 0, 1/DistScale, ..., 1; the integer d stands
\* for d/DistScale
DistScale == 2
\* spins of the synthesis cell range over 1..MaxSpins
MaxSpins == 3

(* ------------------------- program constants --------------------------- *)
\* for _ in range(5)
maxAttempts == 5
\* if dist < 1e-10: the only grid value below 1e-10 is 0, so on the grid
\* "d < 1e-10" is "d < Tolerance" with Tolerance the first grid step
Tolerance == 1

VARIABLES
    built,          \* SpecBuild: the calls made so far, [fn, N, ret]
    N,              \* number of spins of the synthesis cell
    t,              \* loop variable of "for t in range(num_steps+1)"
    pc,             \* position in the cell
    target_unitary, \* [step, kind] of the current target
    circ_struct,    \* the structure built for the current time-step
    mgcCalls,       \* number of make_MGC calls made by the cell
    dist,           \* running best distance
    dist_new,       \* distance of the latest attempt
    vec,            \* parameter vector held in vec: <<step, attempt>> of
                    \* the solve call that returned it
    attempts,       \* solve calls made in the current time-step
    hist,           \* dist_new of every attempt of the current time-step
    bests,          \* dist after every attempt of the current time-step
    solveCalls,     \* solve calls made per time-step
    out             \* files written, in order: [step, structure, parameters, ...]

cellVars == <<N, t, pc, target_unitary, circ_struct, mgcCalls, dist,
              dist_new, vec, attempts, hist, bests, solveCalls, out>>
vars == <<built, N, t, pc, target_unitary, circ_struct, mgcCalls, dist,
          dist_new, vec, attempts, hist, bests, solveCalls, out>>

(* ============================ gate trees =============================== *)
\* A gate is [kind, sub]: kind is the QSearch gate class, sub its subgates.
Gate(kind, sub) == [kind |-> kind, sub |-> sub]

ZGate == Gate("ZGate", <<>>)
XGate == Gate("XGate", <<>>)
CNOTGate == Gate("CNOTGate", <<>>)
IdentityGate == Gate("IdentityGate", <<>>)

\* a local variable that has not been assigned yet
Unbound == Gate("unbound", <<>>)
\* the exception raised when an unassigned local is read
UnboundLocalError == Gate("UnboundLocalError", <<>>)

IsGate(g) == g.kind \notin {"unbound", "UnboundLocalError"}

\* Reading a local: an unassigned one raises, and the exception propagates
\* through every enclosing expression.
KroneckerGate(a, b) ==
    IF ~IsGate(a) \/ ~IsGate(b) THEN UnboundLocalError
    ELSE Gate("KroneckerGate", <<a, b>>)

ProductGate(subgates) ==
    IF \E i \in 1..Len(subgates) : ~IsGate(subgates[i]) THEN UnboundLocalError
    ELSE Gate("ProductGate", subgates)

RECURSIVE SumOver(_, _)
SumOver(f, n) == IF n = 0 THEN 0 ELSE f[n] + SumOver(f, n - 1)

\* Gate.num_inputs: one per rotation, none for CNOT and identity, the sum of
\* the subgates' for both compositions
RECURSIVE NumInputs(_)
NumInputs(g) ==
    CASE g.kind \in {"ZGate", "XGate"} -> 1
      [] g.kind \in {"CNOTGate", "IdentityGate"} -> 0
      [] g.kind \in {"KroneckerGate", "ProductGate"} ->
            SumOver([i \in 1..Len(g.sub) |-> NumInputs(g.sub[i])], Len(g.sub))
      [] OTHER -> 0

\* Gate.qudits: the Kronecker product adds the subgates' qudits, the
\* product takes those of its first subgate
RECURSIVE Qudits(_)
Qudits(g) ==
    CASE g.kind \in {"ZGate", "XGate", "IdentityGate"} -> 1
      [] g.kind = "CNOTGate" -> 2
      [] g.kind = "KroneckerGate" ->
            SumOver([i \in 1..Len(g.sub) |-> Qudits(g.sub[i])], Len(g.sub))
      [] g.kind = "ProductGate" ->
            IF Len(g.sub) = 0 THEN 0 ELSE Qudits(g.sub[1])
      [] OTHER -> 0

(* ====================== circuit-structure functions ==================== *)
make_matchgate_mixedI ==
    LET rz == ZGate
        rx == XGate
        cnot == CNOTGate
        I == IdentityGate
        RZ_layer == KroneckerGate(rz, rz)
        RX_layer == KroneckerGate(rx, rx)
        RXRZ_layer == KroneckerGate(rx, I)
    IN  ProductGate(<<RZ_layer, RX_layer, cnot, RXRZ_layer, cnot,
                      RX_layer, RZ_layer>>)

make_matchgate_xfirst ==
    LET rz == ZGate
        rx == XGate
        cnot == CNOTGate
        RZ_layer == KroneckerGate(rz, rz)
        RX_layer == KroneckerGate(rx, rx)
        RXRZ_layer == KroneckerGate(rx, rz)
    IN  ProductGate(<<RX_layer, RZ_layer, cnot, RXRZ_layer, cnot,
                      RZ_layer, RX_layer>>)

make_matchgate ==
    LET rz == ZGate
        rx == XGate
        cnot == CNOTGate
        RZ_layer == KroneckerGate(rz, rz)
        RX_layer == KroneckerGate(rx, rx)
        RXRZ_layer == KroneckerGate(rx, rz)
    IN  ProductGate(<<RZ_layer, RX_layer, cnot, RXRZ_layer, cnot,
                      RX_layer, RZ_layer>>)

\* int(N/2) for N >= 0
IntHalf(n) == n \div 2

\* "for i in range(count)" of make_layertype1: layer after the loop
RECURSIVE Layer1Loop(_)
Layer1Loop(count) ==
    IF count = 0 THEN Unbound
    ELSE IF count = 1 THEN make_matchgate
    ELSE KroneckerGate(Layer1Loop(count - 1), make_matchgate)

make_layertype1_noI(n) ==
    LET layer == Layer1Loop(IntHalf(n))
    IN  IF IsGate(layer) THEN layer ELSE UnboundLocalError

make_layertype1(n) ==
    LET I == IdentityGate
        layer == Layer1Loop(IntHalf(n))
    IN  IF n % 2 # 0 THEN KroneckerGate(layer, I)
        ELSE IF IsGate(layer) THEN layer ELSE UnboundLocalError

RECURSIVE Layer2Loop_rot(_)
Layer2Loop_rot(count) ==
    IF count <= 0 THEN XGate
    ELSE KroneckerGate(Layer2Loop_rot(count - 1), make_matchgate)

\* "for _ in range(count)" of make_layertype2, started from layer = I
RECURSIVE Layer2Loop(_)
Layer2Loop(count) ==
    IF count <= 0 THEN IdentityGate
    ELSE KroneckerGate(Layer2Loop(count - 1), make_matchgate)

make_layertype2_full(n) ==
    LET I == IdentityGate
    IN  IF n % 2 = 0 THEN KroneckerGate(Layer2Loop(IntHalf(n)), I)
        ELSE Layer2Loop(IntHalf(n))

make_layertype2_notrail(n) ==
    IF n % 2 = 0 THEN Layer2Loop(IntHalf(n) - 1)
    ELSE Layer2Loop(IntHalf(n))

make_layertype2(n) ==
    LET I == IdentityGate
    IN  IF n % 2 = 0 THEN KroneckerGate(Layer2Loop(IntHalf(n) - 1), I)
        ELSE Layer2Loop(IntHalf(n))

\* circuit after the iterations l = 0 .. count-1 of "for l in range(N)"
RECURSIVE MGCLoop(_, _)
MGCLoop(n, count) ==
    IF count = 0 THEN Unbound
    ELSE LET l == count - 1
             circuit == MGCLoop(n, l)
         IN  IF l % 2 = 0
             THEN IF l = 0 THEN make_layertype2(n)
                  ELSE ProductGate(<<circuit, make_layertype2(n)>>)
             ELSE ProductGate(<<circuit, make_layertype1(n)>>)

RECURSIVE MGCLoop_swapped(_, _)
MGCLoop_swapped(n, count) ==
    IF count = 0 THEN Unbound
    ELSE LET l == count - 1
             circuit == MGCLoop_swapped(n, l)
         IN  IF l % 2 = 0
             THEN IF l = 0 THEN make_layertype1(n)
                  ELSE ProductGate(<<circuit, make_layertype1(n)>>)
             ELSE ProductGate(<<circuit, make_layertype2(n)>>)

make_MGC_swapped(n) ==
    LET circuit == MGCLoop_swapped(n, n)
    IN  IF IsGate(circuit) THEN circuit ELSE UnboundLocalError

make_MGC_short(n) ==
    LET circuit == MGCLoop(n, n - 1)
    IN  IF IsGate(circuit) THEN circuit ELSE UnboundLocalError

make_MGC(n) ==
    LET circuit == MGCLoop(n, n)
    IN  IF IsGate(circuit) THEN circuit ELSE UnboundLocalError

(* ========================= reading a gate tree ========================= *)
\* the layers of a circuit: the binary products make_MGC nests to the left,
\* unwound in time order
RECURSIVE Layers(_)
Layers(c) ==
    IF c.kind = "ProductGate" /\ Len(c.sub) = 2
    THEN Append(Layers(c.sub[1]), c.sub[2])
    ELSE <<c>>

\* the gates a layer places side by side: its Kronecker factors, left to right
RECURSIVE Slots(_)
Slots(g) ==
    IF g.kind = "KroneckerGate"
    THEN Slots(g.sub[1]) \o Slots(g.sub[2])
    ELSE <<g>>

\* first qubit of slot j of a layer
RECURSIVE FirstQubit(_, _)
FirstQubit(s, j) ==
    IF j = 1 THEN 0 ELSE FirstQubit(s, j - 1) + Qudits(s[j - 1])

\* a primitive is a two-qubit product of seven steps
IsPrimitive(g) == g.kind = "ProductGate" /\ Len(g.sub) = 7 /\ Qudits(g) = 2

NumPrimitives(layer) ==
    Cardinality({j \in 1..Len(Slots(layer)) : IsPrimitive(Slots(layer)[j])})

\* primitives of a whole circuit
TotalPrimitives(c) ==
    SumOver([l \in 1..Len(Layers(c)) |-> NumPrimitives(Layers(c)[l])],
            Len(Layers(c)))

\* the leaves of a structure: one instruction each when assembled
RECURSIVE NumLeaves(_)
NumLeaves(g) ==
    IF g.kind \in {"KroneckerGate", "ProductGate"}
    THEN SumOver([i \in 1..Len(g.sub) |-> NumLeaves(g.sub[i])], Len(g.sub))
    ELSE 1

\* the qubits start .. start + Qudits(g) - 1 a gate placed at start acts on
QubitRange(g, start) == start..(start + Qudits(g) - 1)

\* a gate placed at qubit start is well formed: a Kronecker product has the
\* sum of its subgates' qudits and places them on disjoint ranges that
\* together are its own range; the steps of a product all have the same
\* number of qudits
RECURSIVE WellFormedAt(_, _)
WellFormedAt(g, start) ==
    CASE g.kind = "KroneckerGate" ->
            LET l == g.sub[1]
                r == g.sub[2]
            IN  /\ Qudits(g) = Qudits(l) + Qudits(r)
                /\ QubitRange(l, start) \cap
                       QubitRange(r, start + Qudits(l)) = {}
                /\ QubitRange(l, start) \cup
                       QubitRange(r, start + Qudits(l)) = QubitRange(g, start)
                /\ WellFormedAt(l, start)
                /\ WellFormedAt(r, start + Qudits(l))
      [] g.kind = "ProductGate" ->
            /\ Len(g.sub) > 0
            /\ \A i \in 1..Len(g.sub) :
                  /\ Qudits(g.sub[i]) = Qudits(g.sub[1])
                  /\ WellFormedAt(g.sub[i], start)
      [] g.kind \in {"ZGate", "XGate", "IdentityGate", "CNOTGate"} -> TRUE
      [] OTHER -> FALSE

(* ===================== SpecBuild: applying the functions =============== *)
Call(fn, n, ret) == [fn |-> fn, N |-> n, ret |-> ret]

InitCell ==
    /\ N \in 1..MaxSpins
    /\ t = 0
    /\ pc = "setup"
    /\ target_unitary = [step |-> -1, kind |-> "none", gates |-> 0]
    /\ circ_struct = Unbound
    /\ mgcCalls = 0
    /\ dist = 0
    /\ dist_new = 0
    /\ vec = <<-1, 0>>
    /\ attempts = 0
    /\ hist = <<>>
    /\ bests = <<>>
    /\ solveCalls = [s \in 0..NumSteps |-> 0]
    /\ out = <<>>

Init ==
    /\ built = <<>>
    /\ InitCell

Call_make_matchgate ==
    /\ Len(built) < MaxCalls
    /\ built' = Append(built, Call("make_matchgate", 2, make_matchgate))
    /\ UNCHANGED cellVars

Call_make_layertype1 ==
    /\ Len(built) < MaxCalls
    /\ \E n \in 1..MaxN :
          built' = Append(built, Call("make_layertype1", n, make_layertype1(n)))
    /\ UNCHANGED cellVars

Call_make_layertype2 ==
    /\ Len(built) < MaxCalls
    /\ \E n \in 1..MaxN :
          built' = Append(built, Call("make_layertype2", n, make_layertype2(n)))
    /\ UNCHANGED cellVars

Call_make_MGC ==
    /\ Len(built) < MaxCalls
    /\ \E n \in 1..MaxN :
          built' = Append(built, Call("make_MGC", n, make_MGC(n)))
    /\ UNCHANGED cellVars

NextBuild ==
    \/ Call_make_matchgate
    \/ Call_make_layertype1
    \/ Call_make_layertype2
    \/ Call_make_MGC

SpecBuild == Init /\ [][NextBuild]_vars

(* ================= Spec: the make constant-depth circuits cell ========= *)
\* dist = 1
InitDist == DistScale

\* if dist_new < dist: dist = dist_new
UpdateBest_overwrite(d, dnew) == dnew

UpdateBest(d, dnew) == IF dnew < d THEN dnew ELSE d

\* if dist < 1e-10: break
BreakLoop_never(d) == FALSE

BreakLoop(d) == d < Tolerance

\* what can be given as target: the unitary simulator returns a unitary
\* 2^N x 2^N matrix; the other kinds are the malformed targets
TargetKinds == {"unitary", "nonsquare", "wrongdim", "nonunitary"}

\* a gate of a qiskit circuit
QGate(name, qubits) == [name |-> name, qubits |-> qubits]

\* "for q in range(0,N-1)" of the XX operator, from q on
RECURSIVE XXLoop(_, _)
XXLoop(q, n) ==
    IF q >= n - 1 THEN <<>>
    ELSE <<QGate("h", <<q>>), QGate("h", <<q + 1>>),
           QGate("cx", <<q, q + 1>>), QGate("rz", <<q + 1>>),
           QGate("cx", <<q, q + 1>>),
           QGate("h", <<q>>), QGate("h", <<q + 1>>)>> \o XXLoop(q + 1, n)

\* "for q in range(0,N-1)" of the YY operator, from q on
RECURSIVE YYLoop(_, _)
YYLoop(q, n) ==
    IF q >= n - 1 THEN <<>>
    ELSE <<QGate("rx", <<q>>), QGate("rx", <<q + 1>>),
           QGate("cx", <<q, q + 1>>), QGate("rz", <<q + 1>>),
           QGate("cx", <<q, q + 1>>),
           QGate("rx", <<q>>), QGate("rx", <<q + 1>>)>> \o YYLoop(q + 1, n)

\* the gates one iteration of "for step in range(num_time_steps)" appends
StepBlock(n) == XXLoop(0, n) \o YYLoop(0, n)

RECURSIVE evolution_circuit_XY_extra(_, _)
evolution_circuit_XY_extra(num_time_steps, n) ==
    IF num_time_steps = 0 THEN StepBlock(n)
    ELSE evolution_circuit_XY_extra(num_time_steps - 1, n) \o StepBlock(n)

RECURSIVE evolution_circuit_XY(_, _)
evolution_circuit_XY(num_time_steps, n) ==
    IF num_time_steps = 0 THEN <<>>
    ELSE evolution_circuit_XY(num_time_steps - 1, n) \o StepBlock(n)

\* circuits.append(evolution_circuit_XY(i, ...)) for i in range(0, num_steps+1)
circuits == [i \in 0..NumSteps |-> evolution_circuit_XY(i, N)]

\* a circuit without gates has the identity as its unitary
IsIdentityTarget(target) == target.kind = "unitary" /\ target.gates = 0

\* a structure made of identities only
RECURSIVE OnlyIdentities(_)
OnlyIdentities(g) ==
    \/ g.kind = "IdentityGate"
    \/ /\ g.kind \in {"KroneckerGate", "ProductGate"}
       /\ \A i \in 1..Len(g.sub) : OnlyIdentities(g.sub[i])

\* the distances the matrix returned by solve_for_unitary can have from the
\* target: the matrix is the structure's at the returned parameters, so a
\* structure without parameters made of identities gives the identity, at
\* distance 0 from an identity target; otherwise the search may end anywhere
SolveDistances(struct, target) ==
    IF NumInputs(struct) = 0 /\ OnlyIdentities(struct)
          /\ IsIdentityTarget(target)
    THEN {0}
    ELSE 0..DistScale

\* "for _ in range(5)" has no iteration left after a attempts
Exhausted_late(a) == a = maxAttempts + 1

Exhausted(a) == a = maxAttempts

SetupWith_cached(kind) ==
    /\ pc = "setup"
    /\ t <= NumSteps
    /\ target_unitary' = [step |-> t, kind |-> kind,
                          gates |-> Len(circuits[t])]
    /\ circ_struct' = IF t = 0 THEN make_MGC(N) ELSE circ_struct
    /\ mgcCalls' = IF t = 0 THEN mgcCalls + 1 ELSE mgcCalls
    /\ dist' = InitDist
    /\ attempts' = 0
    /\ hist' = <<>>
    /\ bests' = <<>>
    /\ pc' = "solve"
    /\ UNCHANGED <<built, N, t, dist_new, vec, solveCalls, out>>

SetupWith_noreset(kind) ==
    /\ pc = "setup"
    /\ t <= NumSteps
    /\ target_unitary' = [step |-> t, kind |-> kind,
                          gates |-> Len(circuits[t])]
    /\ circ_struct' = make_MGC(N)
    /\ mgcCalls' = mgcCalls + 1
    /\ dist' = IF t = 0 THEN InitDist ELSE dist
    /\ attempts' = 0
    /\ hist' = <<>>
    /\ bests' = <<>>
    /\ pc' = "solve"
    /\ UNCHANGED <<built, N, t, dist_new, vec, solveCalls, out>>

\* lines "for t in range(num_steps+1)" to "dist = 1"
SetupWith(kind) ==
    /\ pc = "setup"
    /\ t <= NumSteps
    /\ target_unitary' = [step |-> t, kind |-> kind,
                          gates |-> Len(circuits[t])]
    /\ circ_struct' = make_MGC(N)
    /\ mgcCalls' = mgcCalls + 1
    /\ dist' = InitDist
    /\ attempts' = 0
    /\ hist' = <<>>
    /\ bests' = <<>>
    /\ pc' = "solve"
    /\ UNCHANGED <<built, N, t, dist_new, vec, solveCalls, out>>

Setup == SetupWith("unitary")

SetupAny == \E kind \in TargetKinds : SetupWith(kind)

Solve_breakFirst ==
    /\ pc = "solve"
    /\ attempts < maxAttempts
    /\ \E d \in SolveDistances(circ_struct, target_unitary) :
          /\ vec' = <<t, attempts + 1>>
          /\ dist_new' = d
          /\ dist' = UpdateBest(dist, d)
          /\ hist' = Append(hist, d)
          /\ bests' = Append(bests, UpdateBest(dist, d))
          /\ pc' = IF BreakLoop(dist) \/ Exhausted(attempts + 1)
                   THEN "assemble" ELSE "solve"
    /\ attempts' = attempts + 1
    /\ solveCalls' = [solveCalls EXCEPT ![t] = @ + 1]
    /\ UNCHANGED <<built, N, t, target_unitary, circ_struct, mgcCalls, out>>

\* one iteration of "for _ in range(5)": the solver returns a matrix at one
\* of the distances the structure allows and the parameters that give it
Solve ==
    /\ pc = "solve"
    /\ attempts < maxAttempts
    /\ \E d \in SolveDistances(circ_struct, target_unitary) :
          /\ vec' = <<t, attempts + 1>>
          /\ dist_new' = d
          /\ dist' = UpdateBest(dist, d)
          /\ hist' = Append(hist, d)
          /\ bests' = Append(bests, UpdateBest(dist, d))
          /\ pc' = IF BreakLoop(UpdateBest(dist, d)) \/ Exhausted(attempts + 1)
                   THEN "assemble" ELSE "solve"
    /\ attempts' = attempts + 1
    /\ solveCalls' = [solveCalls EXCEPT ![t] = @ + 1]
    /\ UNCHANGED <<built, N, t, target_unitary, circ_struct, mgcCalls, out>>

\* the solver is called on a target it cannot work with and raises: the cell
\* stops there
SolveRaises ==
    /\ pc = "solve"
    /\ attempts < maxAttempts
    /\ target_unitary.kind # "unitary"
    /\ attempts' = attempts + 1
    /\ solveCalls' = [solveCalls EXCEPT ![t] = @ + 1]
    /\ pc' = "raised"
    /\ UNCHANGED <<built, N, t, target_unitary, circ_struct, mgcCalls, dist,
                   dist_new, vec, hist, bests, out>>

\* least element of a non-empty sequence of distances
MinOf(s) == CHOOSE m \in {s[i] : i \in 1..Len(s)} :
                \A i \in 1..Len(s) : m <= s[i]

\* distance of the solve call that returned the parameters v, when that call
\* belongs to time-step step (whose attempts gave the distances h)
DistOf(v, step, h) ==
    IF v[1] = step /\ v[2] \in 1..Len(h) THEN h[v[2]] ELSE -1

\* print the distance, assemble structure and vec, write the file
Assemble ==
    /\ pc = "assemble"
    /\ out' = Append(out, [step |-> t,
                           target |-> target_unitary,
                           structure |-> circ_struct,
                           parameters |-> vec,
                           printed |-> dist,
                           paramDist |-> DistOf(vec, t, hist),
                           minDist |-> MinOf(hist)])
    /\ t' = t + 1
    /\ pc' = IF t + 1 > NumSteps THEN "done" ELSE "setup"
    /\ UNCHANGED <<built, N, target_unitary, circ_struct, mgcCalls, dist,
                   dist_new, vec, attempts, hist, bests, solveCalls>>

Next ==
    \/ Setup
    \/ Solve
    \/ Assemble

Spec == Init /\ [][Next]_vars

\* the cell is sequential code that keeps running until its loops end
SpecFair == Spec /\ WF_vars(Next)

NextTarget ==
    \/ SetupAny
    \/ Solve
    \/ SolveRaises
    \/ Assemble

SpecTarget == Init /\ [][NextTarget]_vars

(* =============================== claims ================================ *)
\* the calls of one structure function recorded so far
CallsOf(fn) == {i \in 1..Len(built) : built[i].fn = fn}

\* an offset-B layer leaves qubit 0 to an identity, an offset-A layer starts
\* with a primitive on qubits (0,1)
IsOffsetB(layer) == Slots(layer)[1] = IdentityGate
IsOffsetA(layer) == IsPrimitive(Slots(layer)[1])

\* C1: when the retry loop has finished, the parameters handed to the
\* assembler come from the attempt with the lowest distance of that
\* time-step, and the printed best distance is the distance of that attempt.
C1_BestParamsAssembled ==
    \A i \in 1..Len(out) :
        /\ out[i].paramDist = out[i].minDist
        /\ out[i].printed = out[i].paramDist

\* C2: the running best distance after attempt k+1 is at most the running
\* best distance after attempt k.
C2_BestNonIncreasing ==
    \A k \in 1..(Len(bests) - 1) : bests[k + 1] <= bests[k]

\* five attempts were made and one of them was worse than the one before it
C2_Witness ==
    /\ Len(bests) = maxAttempts
    /\ \E k \in 1..(Len(hist) - 1) : hist[k + 1] > hist[k]

\* C3: no solve call follows an attempt that leaves the best distance below
\* tolerance, and a further solve call follows whenever the best distance
\* is not below tolerance and fewer than maxAttempts attempts were made.
C3_StopAtTolerance ==
    /\ pc = "solve" /\ attempts > 0 => dist >= Tolerance
    /\ \A k \in 1..(Len(bests) - 1) : bests[k] >= Tolerance
    /\ (pc \in {"solve", "assemble"} /\ attempts > 0
          /\ attempts < maxAttempts /\ dist >= Tolerance) => pc = "solve"
    /\ pc \in {"solve", "assemble"} => solveCalls[t] = attempts

\* the loop was left at the second attempt, below tolerance
C3_Witness ==
    /\ pc = "assemble"
    /\ attempts = 2
    /\ dist < Tolerance

\* C4: when the attempts are exhausted with the best distance not below
\* tolerance, the cell does not fail and what it yields is the result of the
\* best attempt together with its distance, the minimum over the attempts.
C4_NonConvergedBestYielded ==
    /\ pc # "raised"
    /\ \A i \in 1..Len(out) :
          out[i].printed >= Tolerance =>
              /\ out[i].printed = out[i].minDist
              /\ out[i].paramDist = out[i].printed

C6_SixPerPrimitive ==
    /\ \A i \in CallsOf("make_matchgate") : NumInputs(built[i].ret) = 6
    /\ \A i \in CallsOf("make_MGC") :
          /\ NumInputs(built[i].ret) = 6 * TotalPrimitives(built[i].ret)
          /\ built[i].N = 3 =>
                /\ Len(Layers(built[i].ret)) = 3
                /\ \A l \in 1..3 : NumPrimitives(Layers(built[i].ret)[l]) = 1
                /\ NumInputs(built[i].ret) = 18

\* C6: a primitive has 10 rotation parameters, make_MGC(N) has 10 per
\* primitive, and make_MGC(3) has 3 layers of 1 primitive and 30 parameters.
C6_TenPerPrimitive ==
    /\ \A i \in CallsOf("make_matchgate") : NumInputs(built[i].ret) = 10
    /\ \A i \in CallsOf("make_MGC") :
          /\ NumInputs(built[i].ret) = 10 * TotalPrimitives(built[i].ret)
          /\ built[i].N = 3 =>
                /\ Len(Layers(built[i].ret)) = 3
                /\ \A l \in 1..3 : NumPrimitives(Layers(built[i].ret)[l]) = 1
                /\ NumInputs(built[i].ret) = 30

\* make_matchgate and make_MGC(3) have both been called
C6_Witness ==
    /\ CallsOf("make_matchgate") # {}
    /\ \E i \in CallsOf("make_MGC") :
          built[i].N = 3 /\ TotalPrimitives(built[i].ret) = 3

\* C7 as stated: every layer of make_MGC(N) has floor(N/2) primitives.
C7_FloorHalfPerLayer ==
    \A i \in CallsOf("make_MGC") :
        \A l \in 1..Len(Layers(built[i].ret)) :
            NumPrimitives(Layers(built[i].ret)[l]) = built[i].N \div 2

\* C7: every offset-A layer of make_MGC(N) has floor(N/2) primitives and
\* every offset-B layer floor((N-1)/2), which is floor(N/2) for odd N and
\* N/2 - 1 for even N.
C7_PrimitivesPerLayer ==
    \A i \in CallsOf("make_MGC") :
        \A l \in 1..Len(Layers(built[i].ret)) :
            LET layer == Layers(built[i].ret)[l]
                n == built[i].N
            IN  /\ IsOffsetA(layer) \/ IsOffsetB(layer)
                /\ IsOffsetA(layer) => NumPrimitives(layer) = n \div 2
                /\ IsOffsetB(layer) =>
                      NumPrimitives(layer) = (n - 1) \div 2
                /\ (IsOffsetB(layer) /\ n % 2 = 0) =>
                      NumPrimitives(layer) = (n \div 2) - 1
                /\ n % 2 = 1 => NumPrimitives(layer) = n \div 2

\* make_MGC(4) has been called: its offset-A layers hold 2 primitives, its
\* offset-B layers 1
C7_Witness ==
    \E i \in CallsOf("make_MGC") :
        /\ built[i].N = 4
        /\ \E l \in 1..Len(Layers(built[i].ret)) :
              /\ IsOffsetB(Layers(built[i].ret)[l])
              /\ NumPrimitives(Layers(built[i].ret)[l]) = 1
        /\ \E l \in 1..Len(Layers(built[i].ret)) :
              /\ IsOffsetA(Layers(built[i].ret)[l])
              /\ NumPrimitives(Layers(built[i].ret)[l]) = 2

C10_LayerOffsetA ==
    \A i \in CallsOf("make_layertype1") :
        LET layer == built[i].ret
            n == built[i].N
            s == Slots(layer)
        IN  /\ IsGate(layer)
            /\ Qudits(layer) = n
            /\ Len(s) = (n \div 2) + (n % 2)
            /\ \A j \in 1..(n \div 2) :
                  IsPrimitive(s[j]) /\ FirstQubit(s, j) = 2 * (j - 1)
            /\ n % 2 = 1 => s[Len(s)] = IdentityGate
            /\ n = 1 => layer = IdentityGate

\* C11: make_layertype2(N) returns a layer over N qubits: an identity on
\* qubit 0, a primitive on each pair (1,2), (3,4), ..., and a trailing
\* identity on the last qubit exactly when N is even.
C11_LayerOffsetB ==
    \A i \in CallsOf("make_layertype2") :
        LET layer == built[i].ret
            n == built[i].N
            s == Slots(layer)
            prims == (n - 1) \div 2
        IN  /\ IsGate(layer)
            /\ Qudits(layer) = n
            /\ Len(s) = 1 + prims + (IF n % 2 = 0 THEN 1 ELSE 0)
            /\ s[1] = IdentityGate
            /\ \A j \in 1..prims :
                  IsPrimitive(s[j + 1]) /\ FirstQubit(s, j + 1) = 2 * j - 1
            /\ n % 2 = 0 =>
                  /\ s[Len(s)] = IdentityGate
                  /\ FirstQubit(s, Len(s)) = n - 1
            /\ (n % 2 = 1 /\ n > 1) => IsPrimitive(s[Len(s)])

\* make_layertype2 has been called with N = 4 and with N = 3
C11_Witness ==
    /\ \E i \in CallsOf("make_layertype2") :
          built[i].N = 4 /\ Len(Slots(built[i].ret)) = 3
    /\ \E i \in CallsOf("make_layertype2") :
          built[i].N = 3 /\ Len(Slots(built[i].ret)) = 2

\* C12: make_matchgate returns a product over 2 qubits of exactly 7 steps:
\* RZ.RZ, RX.RX, CNOT, RX.RZ, CNOT, RX.RX, RZ.RZ.
C12_MatchgateSteps ==
    \A i \in CallsOf("make_matchgate") :
        LET g == built[i].ret
            ZZ == Gate("KroneckerGate", <<ZGate, ZGate>>)
            XX == Gate("KroneckerGate", <<XGate, XGate>>)
            XZ == Gate("KroneckerGate", <<XGate, ZGate>>)
        IN  /\ g.kind = "ProductGate"
            /\ Len(g.sub) = 7
            /\ g.sub = <<ZZ, XX, CNOTGate, XZ, CNOTGate, XX, ZZ>>
            /\ \A k \in 1..Len(g.sub) : Qudits(g.sub[k]) = 2
            /\ Qudits(g) = 2

\* make_matchgate has been called
C12_Witness ==
    \E i \in CallsOf("make_matchgate") : Len(built[i].ret.sub) = 7

\* C13: in make_MGC(N) every Kronecker product has the sum of its subgates'
\* qudits and places them on disjoint, contiguous ranges, every product has
\* steps of equal qudits, and the root has N qudits.
C13_WellFormedTree ==
    \A i \in CallsOf("make_MGC") :
        /\ IsGate(built[i].ret)
        /\ WellFormedAt(built[i].ret, 0)
        /\ Qudits(built[i].ret) = built[i].N
        /\ QubitRange(built[i].ret, 0) = 0..(built[i].N - 1)

\* make_MGC has been called with an odd and with an even N above 2
C13_Witness ==
    /\ \E i \in CallsOf("make_MGC") : built[i].N = 3
    /\ \E i \in CallsOf("make_MGC") : built[i].N = 4

\* C14 as stated: over the time-steps 0..num_steps the structure is built
\* once and that tree is reused by every time-step.
C14_BuiltOnce ==
    /\ mgcCalls <= 1
    /\ \A i \in 1..Len(out) : out[i].structure = out[1].structure

\* C14: make_MGC(N) is called anew in every time-step, num_steps+1 times in
\* all; every call gives the same structure, which the time-step's attempts
\* and its assembly use.
C14_RebuiltEveryStep ==
    /\ mgcCalls = t + (IF pc \in {"solve", "assemble"} THEN 1 ELSE 0)
    /\ pc = "done" => mgcCalls = NumSteps + 1
    /\ \A i \in 1..Len(out) :
          /\ IsGate(out[i].structure)
          /\ out[i].structure = out[1].structure
          /\ pc \in {"solve", "assemble"} => circ_struct = out[i].structure

\* every time-step has been synthesized
C14_Witness ==
    /\ pc = "done"
    /\ Len(out) = NumSteps + 1
    /\ mgcCalls = NumSteps + 1
    /\ mgcCalls >= 2

\* the attempt budget of one time-step
AttemptBudget ==
    /\ attempts <= maxAttempts
    /\ pc = "solve" => attempts < maxAttempts
    /\ pc = "assemble" =>
          /\ attempts \in 1..maxAttempts
          /\ solveCalls[t] = attempts
          /\ dist >= Tolerance => attempts = maxAttempts
    /\ \A i \in 1..Len(out) : solveCalls[out[i].step] \in 1..maxAttempts

\* C15: a time-step makes at least 1 and at most maxAttempts solve calls and
\* then leaves the loop; it leaves it with the best distance not below
\* tolerance only when the maxAttempts attempts are used up.
C15_BoundedAttempts ==
    /\ []AttemptBudget
    /\ (pc = "solve") ~> (pc = "assemble")

\* the loop was left after maxAttempts attempts, none below tolerance
C15_Witness ==
    /\ pc = "assemble"
    /\ attempts = maxAttempts
    /\ dist >= Tolerance

SameStructureEveryStep ==
    \A i \in 1..Len(out) :
        /\ IsGate(out[i].structure)
        /\ out[i].structure = out[1].structure
        /\ NumLeaves(out[i].structure) = NumLeaves(out[1].structure)
        /\ out[i].target.gates = out[i].step * 14 * (N - 1)
        /\ out[i].step = 0 => out[i].target.gates = 0

\* C20 as stated: the assembled structure is the same at every time-step,
\* the reference circuit of step t has t blocks of 14*(N-1) gates, is empty
\* at t = 0 and strictly grows with t.
C20_ReferenceGrows ==
    /\ SameStructureEveryStep
    /\ \A i \in 1..Len(out) : \A j \in 1..Len(out) :
          out[i].step < out[j].step =>
              out[i].target.gates < out[j].target.gates

\* C20: the assembled structure is the same at every time-step, the
\* reference circuit of step t has t blocks of 14*(N-1) gates, is empty at
\* t = 0, strictly grows with t when N >= 2 and stays empty when N = 1.
C20_ConstantDepth ==
    /\ SameStructureEveryStep
    /\ \A i \in 1..Len(out) : \A j \in 1..Len(out) :
          out[i].step < out[j].step =>
              /\ N >= 2 => out[i].target.gates < out[j].target.gates
              /\ N = 1 => out[j].target.gates = 0

\* N = 3: the files of steps 0 and 1 are written, from references of 0 and
\* 28 gates
C20_Witness ==
    /\ N = 3
    /\ Len(out) >= 2
    /\ out[1].target.gates = 0
    /\ out[2].target.gates = 28
    /\ out[1].structure = out[2].structure

\* C21: when the loop is left with the best distance below tolerance, the
\* assembled parameters are those of the attempt that gave that distance;
\* the assembled parameters are not those of a best attempt only when all
\* maxAttempts attempts were made without reaching tolerance.
C21_EarlyExitParams ==
    /\ (pc = "assemble" /\ dist < Tolerance) =>
          /\ vec = <<t, attempts>>
          /\ hist[attempts] = dist
          /\ dist = MinOf(hist)
    /\ \A i \in 1..Len(out) :
          /\ out[i].printed < Tolerance =>
                /\ out[i].paramDist = out[i].printed
                /\ out[i].paramDist = out[i].minDist
          /\ out[i].paramDist # out[i].minDist =>
                /\ solveCalls[out[i].step] = maxAttempts
                /\ out[i].printed >= Tolerance

\* a file written after the loop was left at the second attempt, below
\* tolerance, and a file whose parameters are not the best attempt's
C21_Witness ==
    /\ \E i \in 1..Len(out) :
          out[i].printed < Tolerance /\ solveCalls[out[i].step] = 2
    /\ \E i \in 1..Len(out) :
          out[i].paramDist # out[i].minDist

\* C22: make_MGC(N) holds N*(N-1)/2 matchgates (floor(N/2) in every layer
\* for odd N; N/2 in offset-A and N/2 - 1 in offset-B layers for even N),
\* each with 10 rotation leaves: 5*N*(N-1) parameters, 0 for N = 1, 10 for
\* N = 2, 30 for N = 3.
C22_MatchgateTotal ==
    \A i \in CallsOf("make_MGC") :
        LET c == built[i].ret
            n == built[i].N
            layers == Layers(c)
        IN  /\ IsGate(c)
            /\ 2 * TotalPrimitives(c) = n * (n - 1)
            /\ NumInputs(c) = 5 * n * (n - 1)
            /\ n = 1 => NumInputs(c) = 0
            /\ n = 2 => NumInputs(c) = 10
            /\ n = 3 => NumInputs(c) = 30
            /\ \A l \in 1..Len(layers) :
                  /\ n % 2 = 1 => NumPrimitives(layers[l]) = n \div 2
                  /\ (n % 2 = 0 /\ (l - 1) % 2 = 1) =>
                        NumPrimitives(layers[l]) = n \div 2
                  /\ (n % 2 = 0 /\ (l - 1) % 2 = 0) =>
                        NumPrimitives(layers[l]) = (n \div 2) - 1
                  /\ \A j \in 1..Len(Slots(layers[l])) :
                        IsPrimitive(Slots(layers[l])[j]) =>
                            NumInputs(Slots(layers[l])[j]) = 10

\* make_MGC has been called with N = 4 (6 matchgates) and with N = 3 (3)
C22_Witness ==
    /\ \E i \in CallsOf("make_MGC") :
          built[i].N = 4 /\ TotalPrimitives(built[i].ret) = 6
    /\ \E i \in CallsOf("make_MGC") :
          built[i].N = 3 /\ NumInputs(built[i].ret) = 30

\* C23: every time-step starts its attempts from dist = 1; the distance it
\* reports is the lowest of its own attempts and the parameters it writes
\* were returned by a solve call of that time-step, made against that
\* time-step's target; nothing of an earlier time-step is reported or
\* assembled.
C23_StepsIsolated ==
    /\ (pc = "solve" /\ attempts = 0) => dist = InitDist /\ hist = <<>>
    /\ pc \in {"solve", "assemble"} => target_unitary.step = t
    /\ (pc \in {"solve", "assemble"} /\ attempts > 0) =>
          /\ vec[1] = t
          /\ vec[2] \in 1..attempts
          /\ dist = MinOf(hist)
    /\ \A i \in 1..Len(out) :
          /\ out[i].step = i - 1
          /\ out[i].target.step = out[i].step
          /\ out[i].parameters[1] = out[i].step
          /\ out[i].parameters[2] \in 1..solveCalls[out[i].step]
          /\ out[i].paramDist >= 0
          /\ out[i].printed = out[i].minDist

\* time-step 0 ended below tolerance and time-step 1, after it, reports a
\* distance of its own that is not below tolerance
C23_Witness ==
    /\ Len(out) >= 2
    /\ out[1].printed < Tolerance
    /\ out[2].printed >= Tolerance
    /\ out[2].parameters[1] = 1

====
